---- MODULE Spec2Model ----
(***************************************************************************)
(* SelectDispatcher (thrill/net/tcp/select_dispatcher.cpp): the watch      *)
(* table, the select() interest set, one dispatch thread running           *)
(* DispatchOne and one other thread calling Interrupt.                     *)
(***************************************************************************)
EXTENDS Integers, Sequences, FiniteSets, TLC

\* ------------------------------------------------------------- bounds
\* highest descriptor number of the model
MaxFd == 6
\* number of user callbacks registered in the table at one time
MaxCbs == 3
\* registrations the callbacks of one DispatchOne call make
MaxNested == 1
\* user callbacks registered at one time in the runs of FairSpec
WakeCbs == 1
\* interest bits set without a handler at one time
MaxStray == 1
\* bytes the self-pipe holds before a write no longer succeeds
PipeCap == 2
\* sizeof(self_pipe_buffer_): bytes one read() of the drain loop takes
BufSize == 1

\* ---------------------------------------------------------- constants
\* "0 = stdin, 1 = stdout, 2 = stderr"
StdFds == {0, 1, 2}
\* a scan that starts at stdin
FirstFd_Stdin == CHOOSE fd \in StdFds : \A g \in StdFds : fd <= g
\* "start running through the table at fd 3"
FirstFd == 3
\* self_pipe_[0] and self_pipe_[1]: the first two free descriptors
PipeRd == 3
PipeWr == 4

Fds == 0 .. MaxFd
\* descriptors the protocol layer registers callbacks on: those above
\* the pipe
HighFds == (PipeWr + 1) .. MaxFd
Kinds == {"r", "w", "e"}

\* a callback: what it returns, and whether it is SelfPipeCallback
Callback == [ret : BOOLEAN, drain : BOOLEAN]
UserCallback == [ret : BOOLEAN, drain : {FALSE}]
\* SelfPipeCallback that returns false
DrainCallback_Retires == [ret |-> FALSE, drain |-> TRUE]
DrainCallback == [ret |-> TRUE, drain |-> TRUE]

\* struct Watch, default constructed
EmptyWatch == [active |-> FALSE, read_cb |-> <<>>, write_cb |-> <<>>, except_cb |-> <<>>]
\* Select with no bit set
EmptySelect == [r |-> {}, w |-> {}, e |-> {}]

VARIABLES
    watch_,      \* the watch table: fd -> Watch
    watch_size,  \* watch_.size()
    select_,     \* the interest set: one set of descriptors per kind
    fdset,       \* DispatchOne's copy of select_, after select() the ready set
    pc,          \* dispatch thread: "idle", "wait", "scan", "drain", "ret"
    pos,         \* position of the scan: [fd, ph]
    r,           \* return value of select_timeout in this call
    errno,       \* errno after select_timeout
    result,      \* how this DispatchOne call ends
    exception,   \* errno carried by the Exception this call threw
    pipe,        \* bytes in the self-pipe
    ipc,         \* interrupt thread: "idle", "write", "ret"
    wb,          \* Interrupt's wb
    sent,        \* bytes this Interrupt call has put into the pipe
    died,        \* die_unless failed: the process is gone
    log,         \* what this DispatchOne call has invoked and registered
    pre,         \* watch_ and select_ when this DispatchOne call began
    w,           \* DispatchOne's Watch* w: the entry and the table it points into
    dangling     \* w was used after the table it points into had grown

vars == <<watch_, watch_size, select_, fdset, pc, pos, r, errno, result,
          exception, pipe, ipc, wb, sent, died, log, pre, w, dangling>>

\* the table and the interest set
tvars == <<watch_, watch_size, select_>>
\* the locals of a DispatchOne call
lvars == <<fdset, pos, r, errno, result, exception, log, pre, w, dangling>>
\* the interrupt thread
ivars == <<ipc, wb, sent>>

Min(a, b) == IF a < b THEN a ELSE b

\* ------------------------------------------------- the interest set
SetBit(S, k, fd) == [S EXCEPT ![k] = @ \cup {fd}]
ClearBit(S, k, fd) == [S EXCEPT ![k] = @ \ {fd}]
ClearRead(S, fd) == ClearBit(S, "r", fd)
ClearWrite(S, fd) == ClearBit(S, "w", fd)
ClearException(S, fd) == ClearBit(S, "e", fd)
InRead(S, fd) == fd \in S.r
InWrite(S, fd) == fd \in S.w
InException(S, fd) == fd \in S.e

\* the queue of a kind
Queue(k) == IF k = "r" THEN "read_cb" ELSE IF k = "w" THEN "write_cb" ELSE "except_cb"
Other(k) == IF k = "r" THEN "w" ELSE "r"

\* ------------------------------------------------- the watch table
\* a state of the table and the interest set
St(W, sz, S) == [watch |-> W, size |-> sz, sel |-> S]

\* AddRead / AddWrite / SetExcept on descriptor fd
Register(st, fd, k, cb) ==
    LET sz == IF fd >= st.size THEN fd + 1 ELSE st.size
        ent == st.watch[fd]
        w2  == IF k = "e"
              THEN [ent EXCEPT !.active = TRUE, !.except_cb = <<cb>>]
              ELSE [ent EXCEPT !.active = TRUE, ![Queue(k)] = Append(@, cb)]
    IN St([st.watch EXCEPT ![fd] = w2], sz,
          SetBit(SetBit(st.sel, k, fd), "e", fd))

\* user callbacks now in the table
RECURSIVE CountCbs(_, _)
CountCbs(W, fd) ==
    IF fd > MaxFd THEN 0
    ELSE (IF fd = PipeRd THEN 0
          ELSE Len(W[fd].read_cb) + Len(W[fd].write_cb) + Len(W[fd].except_cb))
         + CountCbs(W, fd + 1)

\* a registration: descriptor, kind, callback
Regs == [fd : HighFds, kind : Kinds, cb : UserCallback]
\* the registrations a running callback makes
NestedRegs == {g \in Regs : g.kind # "e"}
NoReg == [fd |-> 0 - 1, kind |-> "none", cb |-> DrainCallback]

\* registrations the callbacks of this call have made
NumRegs(l) == Cardinality({i \in 1 .. Len(l) : l[i].ev = "reg"})

\* what a running callback may register: nothing, or one callback
RegChoices(W, l) ==
    {NoReg} \cup (IF CountCbs(W, 0) < MaxCbs /\ NumRegs(l) < MaxNested THEN NestedRegs ELSE {})

ApplyReg(st, g) == IF g = NoReg THEN st ELSE Register(st, g.fd, g.kind, g.cb)

\* log entries
CallEv(fd, k, cb) == [ev |-> "call", fd |-> fd, kind |-> k, ret |-> cb.ret]
RegEv(g) == [ev |-> "reg", fd |-> g.fd, kind |-> g.kind, ret |-> g.cb.ret]
DefaultEv(fd) == [ev |-> "default", fd |-> fd, kind |-> "e", ret |-> FALSE]
RegLog(g) == IF g = NoReg THEN <<>> ELSE <<RegEv(g)>>

\* ------------------------------------------------- the pointer w
\* w before the scan and after it
NullRef == [fd |-> 0 - 1, cap |-> 0]

\* &watch_[fd], taken when the table has size sz
Fetch(fd, sz) == [fd |-> fd, cap |-> sz]

\* a pointer stays valid as long as the table has not grown
Valid(p, fd, sz) == p.fd = fd /\ p.cap = sz

\* w kept across the callback
Refetch_Keep(fd, sz, old) == old

\* lines 92, 95, 124 and 127: w = &watch_[fd] after a callback returned
Refetch(fd, sz, old) == Fetch(fd, sz)

\* line 81: w when the scan goes on at position p: taken anew for a new
\* descriptor, kept for the next kind of the same descriptor
NextW(p, cur, sz) ==
    IF p.ph = "end" THEN NullRef
    ELSE IF p.fd = cur.fd THEN cur
    ELSE Fetch(p.fd, sz)

\* ---------------------------------------------------------- Init
Init ==
    /\ watch_ = [fd \in Fds |-> IF fd = PipeRd
                                 THEN [EmptyWatch EXCEPT !.active = TRUE,
                                                         !.read_cb = <<DrainCallback>>]
                                 ELSE EmptyWatch]
    /\ watch_size = PipeRd + 1
    /\ select_ = [r |-> {PipeRd}, w |-> {}, e |-> {PipeRd}]
    /\ fdset = EmptySelect
    /\ pc = "idle"
    /\ pos = [fd |-> 0, ph |-> "end"]
    /\ r = 0
    /\ errno = "none"
    /\ result = "none"
    /\ exception = "none"
    /\ pipe = 0
    /\ ipc = "idle"
    /\ wb = 0
    /\ sent = 0
    /\ died = FALSE
    /\ log = <<>>
    /\ pre = [watch |-> <<>>, sel |-> EmptySelect, size |-> 0]
    /\ w = NullRef
    /\ dangling = FALSE

\* ------------------------------------------------- registration
\* between DispatchOne calls the dispatch thread registers a callback
AddCallback(k) ==
    /\ pc = "idle" /\ ~died
    /\ CountCbs(watch_, 0) < MaxCbs
    /\ \E g \in {t \in Regs : t.kind = k} :
          LET st == Register(St(watch_, watch_size, select_), g.fd, k, g.cb)
          IN /\ watch_' = st.watch
             /\ watch_size' = st.size
             /\ select_' = st.sel
    /\ UNCHANGED <<pc, lvars, pipe, ivars, died>>

AddRead == AddCallback("r")
AddWrite == AddCallback("w")
SetExcept == AddCallback("e")

\* a caller registers a callback on stdin, stdout or stderr
AddStd ==
    /\ pc = "idle" /\ ~died
    /\ CountCbs(watch_, 0) < MaxCbs
    /\ \E fd \in StdFds, k \in Kinds, cb \in UserCallback :
          LET st == Register(St(watch_, watch_size, select_), fd, k, cb)
          IN /\ watch_' = st.watch
             /\ watch_size' = st.size
             /\ select_' = st.sel
    /\ UNCHANGED <<pc, lvars, pipe, ivars, died>>

\* the interest bits of kind read or write whose queue is empty
Stray(W, S) ==
    {p \in HighFds \X {"r", "w"} : p[1] \in S[p[2]] /\ Len(W[p[1]][Queue(p[2])]) = 0}

\* protocol misuse: a caller sets a read or write interest bit in the
\* readiness set without registering a handler
SetInterest ==
    /\ pc = "idle" /\ ~died
    /\ Cardinality(Stray(watch_, select_)) < MaxStray
    /\ \E fd \in HighFds, k \in {"r", "w"} :
          /\ Len(watch_[fd][Queue(k)]) = 0
          /\ select_' = SetBit(select_, k, fd)
    /\ UNCHANGED <<watch_, watch_size, pc, lvars, pipe, ivars, died>>

\* ------------------------------------------------- DispatchOne
\* the self-verify assertions at the start of DispatchOne
SelfVerify ==
    \A fd \in FirstFd .. (watch_size - 1) :
        watch_[fd].active =>
            /\ (Len(watch_[fd].read_cb) = 0) # InRead(select_, fd)
            /\ (Len(watch_[fd].write_cb) = 0) # InWrite(select_, fd)

\* the write chain before the read chain
PhaseOrder_WriteFirst == <<"w", "r", "e">>

\* the order in which DispatchOne tests a descriptor's ready bits
PhaseOrder == <<"r", "w", "e">>
PhaseIndex(ph) == CHOOSE i \in 1 .. 3 : PhaseOrder[i] = ph

\* NextPos that tests the queues of the table in place of the ready set
\* select() left in fdset
RECURSIVE NextPos_Live(_, _, _, _, _, _)
NextPos_Live(fd, i, fresh, W, sz, F) ==
    IF fd >= sz THEN [fd |-> fd, ph |-> "end"]
    ELSE IF fresh /\ ~W[fd].active THEN NextPos_Live(fd + 1, 1, TRUE, W, sz, F)
    ELSE IF i > 3 THEN NextPos_Live(fd + 1, 1, TRUE, W, sz, F)
    ELSE IF \/ fd \in F[PhaseOrder[i]]
            \/ (PhaseOrder[i] # "e" /\ Len(W[fd][Queue(PhaseOrder[i])]) > 0)
         THEN [fd |-> fd, ph |-> PhaseOrder[i]]
    ELSE NextPos_Live(fd, i + 1, FALSE, W, sz, F)

\* the scan of the table: the next step at or after the i-th phase of
\* descriptor fd; fresh: the active test of this descriptor is still to come
RECURSIVE NextPos(_, _, _, _, _, _)
NextPos(fd, i, fresh, W, sz, F) ==
    IF fd >= sz THEN [fd |-> fd, ph |-> "end"]
    ELSE IF fresh /\ ~W[fd].active THEN NextPos(fd + 1, 1, TRUE, W, sz, F)
    ELSE IF i > 3 THEN NextPos(fd + 1, 1, TRUE, W, sz, F)
    ELSE IF fd \in F[PhaseOrder[i]] THEN [fd |-> fd, ph |-> PhaseOrder[i]]
    ELSE NextPos(fd, i + 1, FALSE, W, sz, F)

\* where the scan goes after the phase ph of descriptor fd
After(fd, ph, W, sz, F) == NextPos(fd, PhaseIndex(ph) + 1, FALSE, W, sz, F)

GoTo(p) ==
    /\ pos' = p
    /\ pc' = IF p.ph = "end" THEN "ret" ELSE "scan"
    /\ result' = IF p.ph = "end" THEN "done" ELSE "running"

\* Outcome with the error test r <= 0
Outcome_ZeroIsError(rv, e) ==
    IF rv <= 0 THEN (IF e = "EINTR" THEN "eintr" ELSE "throw")
    ELSE "scan"

\* Outcome without the EINTR test
Outcome_NoEintr(rv, e) ==
    IF rv < 0 THEN "throw"
    ELSE IF rv = 0 THEN "return"
    ELSE "scan"

\* Outcome that returns on every negative result
Outcome_NoThrow(rv, e) ==
    IF rv < 0 THEN "eintr"
    ELSE IF rv = 0 THEN "return"
    ELSE "scan"

\* what DispatchOne does with the result of select_timeout
Outcome(rv, e) ==
    IF rv < 0 THEN (IF e = "EINTR" THEN "eintr" ELSE "throw")
    ELSE IF rv = 0 THEN "return"
    ELSE "scan"

\* the copy of select_ that select_timeout works on
Snapshot == select_

\* DispatchOne from its entry to the blocking select()
DispatchOne ==
    /\ pc = "idle" /\ ~died
    /\ fdset' = Snapshot
    /\ pre' = [watch |-> watch_, sel |-> select_, size |-> watch_size]
    /\ log' = <<>>
    /\ result' = "running"
    /\ pc' = "wait"
    /\ UNCHANGED <<tvars, pos, r, errno, exception, pipe, ivars, died, w, dangling>>

\* the self-pipe is readable
PipeReady == pipe > 0 /\ InRead(fdset, PipeRd)

\* the ready sets select() can report: bits of the snapshot; the pipe is
\* ready for read exactly when it holds a byte, and never exceptional
ReadySets ==
    {R \in [r : SUBSET fdset.r, w : SUBSET fdset.w, e : SUBSET (fdset.e \ {PipeRd})] :
        /\ (PipeRd \in R.r) <=> PipeReady
        /\ R # EmptySelect}

\* lines 60-76: select_timeout returned rv, errno e, and left R in fdset
SelectReturned(rv, e, R) ==
    /\ r' = rv
    /\ errno' = e
    /\ fdset' = R
    /\ LET o == Outcome(rv, e)
       IN /\ o = "eintr" => /\ pc' = "ret" /\ result' = "eintr"
                            /\ UNCHANGED <<pos, exception, w>>
          /\ o = "throw" => /\ pc' = "ret" /\ result' = "thrown"
                            /\ exception' = e
                            /\ UNCHANGED <<pos, w>>
          /\ o = "return" => /\ pc' = "ret" /\ result' = "timeout"
                             /\ UNCHANGED <<pos, exception, w>>
          /\ o = "scan" => /\ GoTo(NextPos(FirstFd, 1, TRUE, watch_, watch_size, R))
                           /\ w' = NextW(NextPos(FirstFd, 1, TRUE, watch_, watch_size, R),
                                         NullRef, watch_size)
                           /\ UNCHANGED exception
    /\ UNCHANGED <<tvars, pipe, ivars, died, dangling>>

\* select() returns with descriptors ready
SelectReady ==
    /\ pc = "wait" /\ ~died
    /\ \E R \in ReadySets :
          SelectReturned(Cardinality(R.r) + Cardinality(R.w) + Cardinality(R.e), errno, R)
    /\ UNCHANGED <<log, pre>>

\* the timeout elapsed with nothing ready
SelectTimeout ==
    /\ pc = "wait" /\ ~died
    /\ ~PipeReady
    /\ SelectReturned(0, errno, EmptySelect)
    /\ UNCHANGED <<log, pre>>

\* a signal arrived while nothing was ready
SelectInterrupted ==
    /\ pc = "wait" /\ ~died
    /\ ~PipeReady
    /\ SelectReturned(0 - 1, "EINTR", fdset)
    /\ UNCHANGED <<log, pre>>

\* DispatchOne when select() refuses the call at once
SelectFailed ==
    /\ pc = "idle" /\ ~died
    /\ pre' = [watch |-> watch_, sel |-> select_, size |-> watch_size]
    /\ log' = <<>>
    /\ \E e \in {"EBADF", "EINVAL"} : SelectReturned(0 - 1, e, Snapshot)

\* ChainDone that clears the interest bit only when it deactivates the entry
ChainDone_KeepBit(st, fd, k) ==
    LET ent == st.watch[fd]
    IN IF Len(ent[Queue(k)]) = 0 /\ Len(ent[Queue(Other(k))]) = 0 /\ ent.except_cb = <<>>
       THEN St([st.watch EXCEPT ![fd].active = FALSE], st.size,
               ClearException(ClearBit(ClearBit(st.sel, k, fd), Other(k), fd), fd))
       ELSE st

\* ChainDone that clears the bits and leaves the entry active
ChainDone_StayActive(st, fd, k) ==
    LET ent == st.watch[fd]
    IN IF Len(ent[Queue(k)]) = 0
       THEN IF Len(ent[Queue(Other(k))]) = 0 /\ ent.except_cb = <<>>
            THEN St(st.watch, st.size,
                    ClearException(ClearBit(ClearBit(st.sel, k, fd), Other(k), fd), fd))
            ELSE St(st.watch, st.size, ClearBit(st.sel, k, fd))
       ELSE st

\* ChainDone without the test of except_cb
ChainDone_IgnoreHandler(st, fd, k) ==
    LET ent == st.watch[fd]
    IN IF Len(ent[Queue(k)]) = 0
       THEN IF Len(ent[Queue(Other(k))]) = 0
            THEN St([st.watch EXCEPT ![fd].active = FALSE], st.size,
                    ClearException(ClearBit(ClearBit(st.sel, k, fd), Other(k), fd), fd))
            ELSE St(st.watch, st.size, ClearBit(st.sel, k, fd))
       ELSE st

\* ChainDone that deactivates without ClearException
ChainDone_KeepException(st, fd, k) ==
    LET ent == st.watch[fd]
    IN IF Len(ent[Queue(k)]) = 0
       THEN IF Len(ent[Queue(Other(k))]) = 0 /\ ent.except_cb = <<>>
            THEN St([st.watch EXCEPT ![fd].active = FALSE], st.size,
                    ClearBit(ClearBit(st.sel, k, fd), Other(k), fd))
            ELSE St(st.watch, st.size, ClearBit(st.sel, k, fd))
       ELSE st

\* lines 95-107 and 127-139: after the chain of kind k on descriptor fd
ChainDone(st, fd, k) ==
    LET ent == st.watch[fd]
    IN IF Len(ent[Queue(k)]) = 0
       THEN IF Len(ent[Queue(Other(k))]) = 0 /\ ent.except_cb = <<>>
            THEN St([st.watch EXCEPT ![fd].active = FALSE], st.size,
                    ClearException(ClearBit(ClearBit(st.sel, k, fd), Other(k), fd), fd))
            ELSE St(st.watch, st.size, ClearBit(st.sel, k, fd))
       ELSE st

\* MissingHandler that only logs
MissingHandler_KeepBit(S, fd, k) == S

\* lines 109-114 and 141-146: a ready event without a handler
MissingHandler(S, fd, k) == ClearBit(S, k, fd)

\* pop_back in place of pop_front
PopFront_Back(st, fd, k) ==
    St([st.watch EXCEPT ![fd][Queue(k)] = SubSeq(@, 1, Len(@) - 1)], st.size, st.sel)

\* pop_front of the queue of kind k
PopFront(st, fd, k) ==
    St([st.watch EXCEPT ![fd][Queue(k)] = Tail(@)], st.size, st.sel)

\* lines 91-107 and 123-139: the front callback cb of the chain of kind k
\* on descriptor fd has returned, leaving the table as st1
CallbackReturned(fd, k, cb, st1) ==
    LET st2  == IF cb.ret = FALSE THEN PopFront(st1, fd, k) ELSE st1
        more == cb.ret = FALSE /\ Len(st2.watch[fd][Queue(k)]) > 0
        st3  == IF more THEN st2 ELSE ChainDone(st2, fd, k)
        w1   == Refetch(fd, st1.size, w)
    IN /\ watch_' = st3.watch
       /\ watch_size' = st3.size
       /\ select_' = st3.sel
       /\ dangling' = (dangling \/ ~Valid(w, fd, watch_size) \/ ~Valid(w1, fd, st1.size))
       /\ IF more THEN pc' = "scan" /\ w' = w1 /\ UNCHANGED <<pos, result>>
          ELSE /\ GoTo(After(fd, k, st3.watch, st3.size, fdset))
               /\ w' = NextW(After(fd, k, st3.watch, st3.size, fdset), w1, st3.size)

\* lines 85-115 (k = "r") and 117-147 (k = "w"): one callback of the chain
\* of a ready descriptor, or the event without a handler
ChainStep(k) ==
    /\ pc = "scan" /\ ~died
    /\ pos.ph = k
    /\ LET fd == pos.fd
           q  == watch_[fd][Queue(k)]
       IN IF Len(q) = 0
          THEN /\ select_' = MissingHandler(select_, fd, k)
               /\ GoTo(After(fd, k, watch_, watch_size, fdset))
               /\ w' = NextW(After(fd, k, watch_, watch_size, fdset), w, watch_size)
               /\ dangling' = (dangling \/ ~Valid(w, fd, watch_size))
               /\ UNCHANGED <<watch_, watch_size, log>>
          ELSE IF Head(q).drain
          THEN /\ pc' = "drain"
               /\ log' = Append(log, CallEv(fd, k, Head(q)))
               /\ dangling' = (dangling \/ ~Valid(w, fd, watch_size))
               /\ UNCHANGED <<tvars, pos, result, w>>
          ELSE \E g \in RegChoices(watch_, log) :
               /\ CallbackReturned(fd, k, Head(q),
                                   ApplyReg(St(watch_, watch_size, select_), g))
               /\ log' = log \o <<CallEv(fd, k, Head(q))>> \o RegLog(g)
    /\ UNCHANGED <<fdset, r, errno, exception, pre, pipe, ivars, died>>

ReadStep == ChainStep("r")
WriteStep == ChainStep("w")

\* ExceptReturned with the test of the handler's result negated
ExceptReturned_Negated(S, fd, ret) == IF ret = TRUE THEN ClearException(S, fd) ELSE S

\* lines 152-155: the exception handler of descriptor fd has returned ret
ExceptReturned(S, fd, ret) == IF ret = FALSE THEN ClearException(S, fd) ELSE S

\* lines 149-160: the exception handler or the default policy
ExceptStep ==
    /\ pc = "scan" /\ ~died
    /\ pos.ph = "e"
    /\ LET fd == pos.fd
           h  == watch_[fd].except_cb
       IN IF h # <<>>
          THEN \E g \in RegChoices(watch_, log) :
               LET cb  == h[1]
                   st1 == ApplyReg(St(watch_, watch_size, select_), g)
                   S2  == ExceptReturned(st1.sel, fd, cb.ret)
               IN /\ watch_' = st1.watch
                  /\ watch_size' = st1.size
                  /\ select_' = S2
                  /\ log' = log \o <<CallEv(fd, "e", cb)>> \o RegLog(g)
                  /\ GoTo(After(fd, "e", st1.watch, st1.size, fdset))
                  /\ w' = NextW(After(fd, "e", st1.watch, st1.size, fdset), w, st1.size)
          ELSE /\ log' = Append(log, DefaultEv(fd))
               /\ GoTo(After(fd, "e", watch_, watch_size, fdset))
               /\ w' = NextW(After(fd, "e", watch_, watch_size, fdset), w, watch_size)
               /\ UNCHANGED tvars
    /\ dangling' = (dangling \/ ~Valid(w, pos.fd, watch_size))
    /\ UNCHANGED <<fdset, r, errno, exception, pre, pipe, ivars, died>>

\* the loop of SelfPipeCallback without its repetition: one read()
ReadAgain_Once(got) == FALSE

\* lines 183-186: the loop goes on while read() returned more than 0
ReadAgain(got) == got > 0

\* SelfPipeCallback: one read() of the loop, and after the read() that
\* found nothing the return to the chain
SelfPipeCallback ==
    /\ pc = "drain" /\ ~died
    /\ LET got == Min(pipe, BufSize)
       IN /\ pipe' = pipe - got
          /\ IF ReadAgain(got)
             THEN UNCHANGED <<tvars, pc, pos, result, w, dangling>>
             ELSE CallbackReturned(pos.fd, pos.ph, Head(watch_[pos.fd][Queue(pos.ph)]),
                                   St(watch_, watch_size, select_))
    /\ UNCHANGED <<fdset, r, errno, exception, log, pre, ivars, died>>

\* DispatchOne returns, or its Exception leaves it
Return ==
    /\ pc = "ret" /\ ~died
    /\ pc' = "idle"
    /\ fdset' = EmptySelect
    /\ pos' = [fd |-> 0, ph |-> "end"]
    /\ r' = 0
    /\ errno' = "none"
    /\ result' = "none"
    /\ exception' = "none"
    /\ log' = <<>>
    /\ pre' = [watch |-> <<>>, sel |-> EmptySelect, size |-> 0]
    /\ w' = NullRef
    /\ UNCHANGED <<tvars, pipe, ivars, died, dangling>>

\* ------------------------------------------------- Interrupt
\* another thread calls Interrupt
InterruptCall ==
    /\ ipc = "idle" /\ ~died
    /\ ipc' = "write"
    /\ UNCHANGED <<tvars, pc, lvars, pipe, wb, sent, died>>

\* AfterWrite of a loop that retries while wb <= 0
AfterWrite_RetryFailed(n) == IF n <= 0 THEN "write" ELSE "ret"

\* AfterWrite of an Interrupt that does not repeat a write() that wrote
\* nothing
AfterWrite_NoRetry(n) == IF n = 0 \/ n = 1 THEN "ret" ELSE "dead"

\* lines 176-179: where Interrupt goes after write() returned n
AfterWrite(n) == IF n = 0 THEN "write" ELSE IF n = 1 THEN "ret" ELSE "dead"

\* lines 176-179: one write() of one byte, and what follows from wb
InterruptWrite ==
    /\ ipc = "write" /\ ~died
    /\ \E n \in {0 - 1, 0, 1} :
          /\ n = 1 => pipe < PipeCap
          /\ wb' = n
          /\ pipe' = IF n = 1 THEN pipe + 1 ELSE pipe
          /\ sent' = IF n = 1 THEN sent + 1 ELSE sent
          /\ ipc' = AfterWrite(n)
          /\ died' = (AfterWrite(n) = "dead")
    /\ UNCHANGED <<tvars, pc, lvars>>

InterruptReturn ==
    /\ ipc = "ret" /\ ~died
    /\ ipc' = "idle"
    /\ wb' = 0
    /\ sent' = 0
    /\ UNCHANGED <<tvars, pc, lvars, pipe, died>>

Next ==
    \/ AddRead \/ AddWrite \/ SetExcept
    \/ DispatchOne \/ SelectFailed
    \/ SelectReady \/ SelectTimeout \/ SelectInterrupted
    \/ ReadStep \/ WriteStep \/ ExceptStep \/ SelfPipeCallback
    \/ Return
    \/ InterruptCall \/ InterruptWrite \/ InterruptReturn

Spec == Init /\ [][Next]_vars

\* the dispatch thread runs, and select() returns when the self-pipe is
\* readable
DispatchStep ==
    \/ (SelectReady /\ PipeReady)
    \/ ReadStep \/ WriteStep \/ ExceptStep \/ SelfPipeCallback

\* Next with at most WakeCbs user callbacks, which register nothing
NextWake ==
    \/ (AddRead /\ CountCbs(watch_', 0) <= WakeCbs)
    \/ (AddWrite /\ CountCbs(watch_', 0) <= WakeCbs)
    \/ (SetExcept /\ CountCbs(watch_', 0) <= WakeCbs)
    \/ DispatchOne \/ SelectFailed
    \/ SelectReady \/ SelectTimeout \/ SelectInterrupted
    \/ (ReadStep /\ NumRegs(log') = 0)
    \/ (WriteStep /\ NumRegs(log') = 0)
    \/ (ExceptStep /\ NumRegs(log') = 0)
    \/ SelfPipeCallback
    \/ Return
    \/ InterruptCall \/ InterruptWrite \/ InterruptReturn

FairSpec == Init /\ [][NextWake]_vars /\ WF_vars(DispatchStep)

\* single-threaded use by callers that also set interest bits directly
NextMisuse ==
    \/ AddRead \/ AddWrite \/ SetExcept \/ SetInterest
    \/ DispatchOne \/ SelectFailed
    \/ SelectReady \/ SelectTimeout \/ SelectInterrupted
    \/ ReadStep \/ WriteStep \/ ExceptStep
    \/ Return

SpecMisuse == Init /\ [][NextMisuse]_vars

\* single-threaded use by callers that also register callbacks on the
\* standard descriptors
NextStd ==
    \/ AddRead \/ AddWrite \/ SetExcept \/ AddStd
    \/ DispatchOne \/ SelectFailed
    \/ SelectReady \/ SelectTimeout \/ SelectInterrupted
    \/ ReadStep \/ WriteStep \/ ExceptStep
    \/ Return

SpecStd == Init /\ [][NextStd]_vars

\* ------------------------------------------------- properties
\* the table and the interest set are as they were when the call began
TableUnchanged == watch_ = pre.watch /\ select_ = pre.sel

\* the callbacks of kind k this call has invoked on descriptor fd
CallsOf(l, fd, k) ==
    SelectSeq(l, LAMBDA e : e.ev = "call" /\ e.fd = fd /\ e.kind = k)

\* this call has registered a callback on descriptor fd
RegisteredOn(l, fd) == \E i \in 1 .. Len(l) : l[i].ev = "reg" /\ l[i].fd = fd

\* the callbacks of a queue that return false before the first one that
\* returns true
RECURSIVE LeadingFalse(_)
LeadingFalse(q) ==
    IF q = <<>> \/ Head(q).ret THEN <<>> ELSE <<Head(q)>> \o LeadingFalse(Tail(q))

\* the queue from its first callback that returns true
RECURSIVE FromFirstTrue(_)
FromFirstTrue(q) ==
    IF q = <<>> \/ Head(q).ret THEN q ELSE FromFirstTrue(Tail(q))

Rets(q) == [i \in 1 .. Len(q) |-> q[i].ret]

\* C1: between DispatchOne calls every active descriptor fd >= 3 has its
\* read bit set iff its read queue is non-empty and its write bit set iff
\* its write queue is non-empty: the self-verify assertions never fail.
C1_SelfVerifyHolds == pc \in {"idle", "ret"} => SelfVerify

\* a call in which a callback registered another one has returned; one
\* descriptor still has read callbacks and another was deactivated
C1_Witness ==
    /\ pc = "ret" /\ result = "done"
    /\ NumRegs(log) > 0
    /\ \E fd \in HighFds, fd2 \in HighFds :
          /\ watch_[fd].active /\ watch_[fd].read_cb # <<>> /\ InRead(select_, fd)
          /\ pre.watch[fd2].active /\ ~watch_[fd2].active

\* C2: a read-ready (write-ready) descriptor with a non-empty read (write)
\* queue has its callbacks invoked from the front; exactly the leading
\* callbacks that return false are removed, the first that returns true
\* stays at the front with the interest bit set (no callback registered on
\* the descriptor meanwhile).
C2_ChainDraining ==
    (pc = "ret" /\ result = "done") =>
        \A fd \in FirstFd .. MaxFd, k \in {"r", "w"} :
            (/\ pre.watch[fd].active
             /\ pre.watch[fd][Queue(k)] # <<>>
             /\ fd \in fdset[k]
             /\ ~RegisteredOn(log, fd))
            => LET q    == pre.watch[fd][Queue(k)]
                   rest == FromFirstTrue(q)
               IN /\ watch_[fd][Queue(k)] = rest
                  /\ Rets(CallsOf(log, fd, k)) =
                        Rets(LeadingFalse(q)) \o (IF rest = <<>> THEN <<>> ELSE <<TRUE>>)
                  /\ rest # <<>> => (fd \in select_[k]) /\ watch_[fd].active

\* three read callbacks returning false, false, true: one ready event
\* has dequeued the first two
C2_Witness ==
    /\ pc = "ret" /\ result = "done"
    /\ \E fd \in HighFds :
          /\ Rets(pre.watch[fd].read_cb) = <<FALSE, FALSE, TRUE>>
          /\ InRead(fdset, fd)
          /\ Rets(watch_[fd].read_cb) = <<TRUE>>
          /\ InRead(select_, fd)

\* C3: a descriptor whose read callbacks all return false, with no write
\* callback and no exception handler, is inactive with no interest bit
\* set after a DispatchOne call in which it was read-ready.
C3_FullDrainDeactivates ==
    (pc = "ret" /\ result = "done") =>
        \A fd \in FirstFd .. MaxFd :
            (/\ pre.watch[fd].active
             /\ pre.watch[fd].read_cb # <<>>
             /\ \A i \in 1 .. Len(pre.watch[fd].read_cb) : ~pre.watch[fd].read_cb[i].ret
             /\ pre.watch[fd].write_cb = <<>>
             /\ pre.watch[fd].except_cb = <<>>
             /\ InRead(fdset, fd)
             /\ ~RegisteredOn(log, fd))
            => /\ ~watch_[fd].active
               /\ ~InRead(select_, fd) /\ ~InWrite(select_, fd) /\ ~InException(select_, fd)

C3_Witness ==
    /\ pc = "ret" /\ result = "done"
    /\ \E fd \in HighFds :
          /\ Rets(pre.watch[fd].read_cb) = <<FALSE>>
          /\ pre.watch[fd].write_cb = <<>> /\ pre.watch[fd].except_cb = <<>>
          /\ InException(pre.sel, fd)
          /\ InRead(fdset, fd)
          /\ ~watch_[fd].active

\* C4: when select returns 0 DispatchOne returns with no callback and no
\* default policy invoked, and the table and the interest bits unchanged.
C4_TimeoutNoEffect ==
    (pc = "ret" /\ r = 0) =>
        /\ result = "timeout" /\ exception = "none"
        /\ log = <<>>
        /\ TableUnchanged

C4_Witness ==
    /\ pc = "ret" /\ r = 0 /\ result = "timeout"
    /\ \E fd \in HighFds : watch_[fd].active /\ watch_[fd].read_cb # <<>>

\* C5: when select fails with EINTR DispatchOne returns normally, with no
\* callback invoked and the table and the interest bits unchanged.
C5_SignalInterruption ==
    (pc = "ret" /\ r < 0 /\ errno = "EINTR") =>
        /\ result = "eintr" /\ exception = "none"
        /\ log = <<>>
        /\ TableUnchanged

C5_Witness ==
    /\ pc = "ret" /\ r < 0 /\ errno = "EINTR" /\ result = "eintr"
    /\ \E fd \in HighFds : watch_[fd].active /\ watch_[fd].write_cb # <<>>

\* C6: DispatchOne throws exactly when select fails with an errno other
\* than EINTR; the Exception carries that errno, no callback was invoked
\* and the table and the interest bits are unchanged.
C6_FatalDispatchFailure ==
    pc = "ret" =>
        /\ (result = "thrown") <=> (r < 0 /\ errno # "EINTR")
        /\ result = "thrown" => /\ exception = errno
                                /\ log = <<>>
                                /\ TableUnchanged
        /\ result # "thrown" => exception = "none"

C6_Witness ==
    /\ pc = "ret" /\ result = "thrown" /\ exception = "EBADF"
    /\ \E fd \in HighFds : watch_[fd].active

\* C9: Interrupt returns only after a write() of one byte returned 1, and
\* has then put exactly one byte into the pipe; it retries only after a
\* write() that returned 0; a negative result ends in die_unless.
C9_InterruptWriteProtocol ==
    /\ ipc = "ret" => wb = 1 /\ sent = 1
    /\ ipc = "write" => wb = 0 /\ sent = 0
    /\ wb < 0 => died /\ ipc = "dead" /\ sent = 0
    /\ died <=> ipc = "dead"

C9_Witness == ipc = "ret" /\ wb = 1 /\ pipe = 1

\* the invocations of a log: callbacks and the default policy
Invocations(l) == SelectSeq(l, LAMBDA e : e.ev # "reg")

\* C10: within one DispatchOne call the invocations are in ascending
\* descriptor order, and for one descriptor read callbacks come before
\* write callbacks, which come before the exception handler or default
\* policy.
C10_DispatchOrdering ==
    LET inv == Invocations(log)
    IN \A i, j \in 1 .. Len(inv) :
          i < j => /\ inv[i].fd <= inv[j].fd
                   /\ inv[i].fd = inv[j].fd =>
                         \/ inv[i].kind = inv[j].kind
                         \/ inv[i].kind = "r"
                         \/ inv[j].kind = "e"

\* the drain callback, then a read and a write callback of one descriptor,
\* then a callback of a higher descriptor
C10_Witness ==
    /\ pc = "ret" /\ result = "done"
    /\ \E fd \in HighFds, fd2 \in HighFds :
          /\ fd < fd2
          /\ CallsOf(log, PipeRd, "r") # <<>>
          /\ CallsOf(log, fd, "r") # <<>>
          /\ CallsOf(log, fd, "w") # <<>>
          /\ \E i \in 1 .. Len(log) : log[i].fd = fd2 /\ log[i].ev # "reg"

\* C7: an active descriptor reported ready for read (write) whose read
\* (write) queue is empty gets that interest bit cleared; no callback of
\* that kind is invoked, nothing is thrown, and the other kinds of the
\* descriptor and the later descriptors are still processed.
C7_MissingHandler ==
    (pc = "ret" /\ r > 0) =>
        \A fd \in FirstFd .. MaxFd, k \in {"r", "w"} :
            (/\ pre.watch[fd].active
             /\ fd \in fdset[k]
             /\ Len(pre.watch[fd][Queue(k)]) = 0
             /\ ~RegisteredOn(log, fd))
            => /\ fd \notin select_[k]
               /\ CallsOf(log, fd, k) = <<>>
               /\ result = "done" /\ exception = "none"
               /\ (fd \in fdset[Other(k)] /\ Len(pre.watch[fd][Queue(Other(k))]) > 0)
                     => CallsOf(log, fd, Other(k)) # <<>>
               /\ fd \in fdset.e =>
                     \E i \in 1 .. Len(log) :
                         log[i].fd = fd /\ log[i].kind = "e" /\ log[i].ev # "reg"
               /\ \A fd2 \in (fd + 1) .. MaxFd :
                     (/\ pre.watch[fd2].active
                      /\ InRead(fdset, fd2)
                      /\ Len(pre.watch[fd2].read_cb) > 0)
                     => CallsOf(log, fd2, "r") # <<>>

\* a write-ready descriptor without a write callback: its read callback,
\* its exception handler and a higher descriptor's callback have run
C7_Witness ==
    /\ pc = "ret" /\ r > 0 /\ result = "done"
    /\ \E fd \in HighFds, fd2 \in HighFds :
          /\ fd < fd2
          /\ pre.watch[fd].active
          /\ InWrite(fdset, fd) /\ InWrite(pre.sel, fd)
          /\ Len(pre.watch[fd].write_cb) = 0
          /\ ~InWrite(select_, fd)
          /\ CallsOf(log, fd, "r") # <<>>
          /\ CallsOf(log, fd, "e") # <<>>
          /\ CallsOf(log, fd2, "r") # <<>>

\* only the read side of the self-pipe was reported ready
OnlyPipeReady == fdset = [r |-> {PipeRd}, w |-> {}, e |-> {}]
DrainRan == CallsOf(log, PipeRd, "r") # <<>>

\* the call has returned with the drain callback run; when nothing else
\* was ready the entries and the interest bits of all other descriptors
\* are as before the call
WokenReturn ==
    /\ pc = "ret" /\ result = "done"
    /\ DrainRan
    /\ OnlyPipeReady =>
          \A fd \in Fds \ {PipeRd} :
              /\ watch_[fd] = pre.watch[fd]
              /\ \A k \in Kinds : (fd \in select_[k]) <=> (fd \in pre.sel[k])

\* C8: when the self-pipe holds a byte of Interrupt while the dispatch
\* thread is blocked in select, select returns with the pipe ready, and
\* that DispatchOne call returns (unless Interrupt is called without end
\* or die_unless ends the process) with the drain callback run and,
\* nothing else being ready, no other descriptor's entry or interest bit
\* changed.
C8_InterruptWakeup ==
    /\ [][(pc = "wait" /\ pipe > 0 /\ pc' # "wait")
             => (pc' = "scan" /\ InRead(fdset', PipeRd))]_vars
    /\ []((pc = "ret" /\ r > 0 /\ InRead(fdset, PipeRd)) => WokenReturn)
    /\ \/ []<><<InterruptWrite>>_vars
       \/ ((pc = "wait" /\ pipe > 0) ~> (died \/ WokenReturn))

\* Interrupt has written its byte and not yet returned; the call woken by
\* it has drained the pipe and returned; another descriptor with a
\* callback was not ready and is as before
C8_Witness ==
    /\ WokenReturn /\ OnlyPipeReady
    /\ ipc = "ret" /\ sent = 1 /\ pipe = 0
    /\ \E fd \in HighFds : watch_[fd].active /\ watch_[fd].read_cb # <<>>

\* an entry with no callback, no handler and no interest bit
LogicallyEmpty(fd) ==
    /\ watch_[fd].read_cb = <<>> /\ watch_[fd].write_cb = <<>>
    /\ watch_[fd].except_cb = <<>>
    /\ ~InRead(select_, fd) /\ ~InWrite(select_, fd) /\ ~InException(select_, fd)

\* C11: between DispatchOne calls an entry with active == false has an
\* empty read queue, an empty write queue, no exception handler, and no
\* read, write or exception interest bit.
C11_InactiveIsEmpty ==
    pc \in {"idle", "ret"} =>
        \A fd \in Fds : ~watch_[fd].active => LogicallyEmpty(fd)

\* a call has deactivated an entry that had its read and exception bits
\* set, while another entry stays active
C11_Witness ==
    /\ pc = "ret" /\ result = "done"
    /\ \E fd \in HighFds, fd2 \in HighFds :
          /\ pre.watch[fd].active /\ ~watch_[fd].active
          /\ InRead(pre.sel, fd) /\ InException(pre.sel, fd)
          /\ LogicallyEmpty(fd)
          /\ watch_[fd2].active

\* C12: between DispatchOne calls a descriptor's exception interest bit is
\* set if and only if the descriptor has an exception handler or is
\* otherwise active, also after a handler has returned false.
C12_ExceptionBitMirrors ==
    pc \in {"idle", "ret"} =>
        \A fd \in Fds :
            InException(select_, fd) <=>
                (watch_[fd].except_cb # <<>> \/ watch_[fd].active)

\* this step deactivates the entry of descriptor fd
Deactivates(fd) == watch_[fd].active /\ ~watch_'[fd].active

\* this step is the end of a callback chain of descriptor fd that has
\* drained to empty, with the other queue empty and no handler set
DrainedChainOf(fd) ==
    /\ pc \in {"scan", "drain"}
    /\ pos.fd = fd /\ pos.ph \in {"r", "w"}
    /\ watch_[fd][Queue(pos.ph)] # <<>>
    /\ Head(watch_[fd][Queue(pos.ph)]).ret = FALSE
    /\ watch_'[fd].read_cb = <<>> /\ watch_'[fd].write_cb = <<>>
    /\ watch_[fd].except_cb = <<>> /\ watch_'[fd].except_cb = <<>>

\* C13: an entry goes from active to inactive only in the step of
\* DispatchOne in which a read or write chain of that descriptor has
\* drained to empty with the other queue empty and no handler set; an
\* entry that holds an exception handler is never deactivated.
C13_DeactivationOnlyByDrain ==
    /\ [][\A fd \in Fds : Deactivates(fd) => DrainedChainOf(fd)]_vars
    /\ [][\A fd \in Fds : watch_[fd].except_cb # <<>> =>
              (watch_'[fd].active /\ watch_'[fd].except_cb # <<>>)]_vars
    /\ [](\A fd \in Fds : watch_[fd].except_cb # <<>> => watch_[fd].active)

\* a call deactivated one entry by its drained read chain; another entry
\* had a write event without a handler and an exception handler that
\* returned false, and is still active
C13_Witness ==
    /\ pc = "ret" /\ result = "done"
    /\ \E fd \in HighFds, fd2 \in HighFds :
          /\ pre.watch[fd].active /\ ~watch_[fd].active
          /\ CallsOf(log, fd, "r") # <<>>
          /\ InWrite(fdset, fd2) /\ pre.watch[fd2].write_cb = <<>>
          /\ Rets(CallsOf(log, fd2, "e")) = <<FALSE>>
          /\ watch_[fd2].active

\* what this step appends to the log
Appended == SubSeq(log', Len(log) + 1, Len(log'))

\* this step is the exception step of an active descriptor
ExceptStepOfActive ==
    /\ pc = "scan" /\ pos.ph = "e" /\ log' # log
    /\ watch_[pos.fd].active

\* C14: for an active descriptor reported exception-ready DispatchOne
\* invokes exactly one of its exception handler (when set) or the default
\* policy (when not set); a handler returning true leaves the exception
\* bit set, one returning false clears it; the handler slot, and the
\* read and write queues and bits (the handler registering nothing on
\* this descriptor), are unchanged by the step.
C14_ExceptionReady ==
    [][ExceptStepOfActive =>
        LET fd  == pos.fd
            h   == watch_[fd].except_cb
            inv == Invocations(Appended)
        IN /\ InException(fdset, fd)
           /\ Len(inv) = 1 /\ inv[1].fd = fd /\ inv[1].kind = "e"
           /\ (inv[1].ev = "call") <=> (h # <<>>)
           /\ (inv[1].ev = "default") <=> (h = <<>>)
           /\ (h # <<>>) =>
                 /\ inv[1].ret = h[1].ret
                 /\ (h[1].ret = TRUE) => InException(select_', fd)
                 /\ (h[1].ret = FALSE) => ~InException(select_', fd)
           /\ (h = <<>>) => (select_' = select_ /\ watch_' = watch_)
           /\ watch_'[fd].except_cb = h
           /\ watch_'[fd].active
           /\ ~RegisteredOn(Appended, fd) =>
                 /\ watch_'[fd] = watch_[fd]
                 /\ InRead(select_', fd) <=> InRead(select_, fd)
                 /\ InWrite(select_', fd) <=> InWrite(select_, fd)]_vars

\* one descriptor's handler has returned false: its bit is cleared and the
\* handler is still set; another's has returned true and its bit is set
C14_Witness ==
    /\ pc = "ret" /\ result = "done"
    /\ \E fd \in HighFds, fd2 \in HighFds :
          /\ Rets(CallsOf(log, fd, "e")) = <<FALSE>>
          /\ ~InException(select_, fd) /\ watch_[fd].except_cb # <<>>
          /\ Rets(CallsOf(log, fd2, "e")) = <<TRUE>>
          /\ InException(select_, fd2) /\ watch_[fd2].except_cb # <<>>

\* the default policy has run for an active descriptor without a handler
C14_DefaultRan ==
    /\ pc = "ret" /\ result = "done"
    /\ \E fd \in HighFds :
          /\ DefaultEv(fd) \in {log[i] : i \in 1 .. Len(log)}
          /\ watch_[fd].active /\ watch_[fd].except_cb = <<>>

\* the read side of the self-pipe is active, with SelfPipeCallback at the
\* front of its read queue and its read interest bit set
Armed ==
    /\ watch_[PipeRd].active
    /\ watch_[PipeRd].read_cb # <<>>
    /\ Head(watch_[PipeRd].read_cb) = DrainCallback
    /\ InRead(select_, PipeRd)

\* C15: SelfPipeCallback always returns true, so after any DispatchOne
\* and Interrupt calls the read side of the self-pipe is still active with
\* SelfPipeCallback at the front of its read queue and its read bit set;
\* when SelfPipeCallback returns, no write() of Interrupt being in
\* progress, the pipe holds no byte.
C15_PermanentlyArmed ==
    /\ []Armed
    /\ [][(pc = "drain" /\ pc' # "drain") =>
            /\ Head(watch_[PipeRd].read_cb).ret = TRUE
            /\ watch_'[PipeRd] = watch_[PipeRd]
            /\ ipc # "write" => pipe' = 0]_vars

\* SelfPipeCallback has run in a call that has returned; the pipe is empty
\* and Interrupt has returned
C15_Witness ==
    /\ pc = "ret" /\ result = "done"
    /\ DrainRan /\ Armed
    /\ pipe = 0 /\ ipc = "idle"

\* SelfPipeCallback starts with more bytes in the pipe than one read() takes
C15_SeveralReads == pc = "drain" /\ pipe > BufSize

\* C16: the byte of an Interrupt is never lost, however the call is
\* interleaved with the dispatch thread: Interrupt returns only having
\* put a byte into the pipe, every snapshot select() waits on holds the
\* read side of the pipe, a byte leaves the pipe only in SelfPipeCallback
\* run by a call whose select() reported the pipe ready, and a select()
\* that ends while the pipe holds a byte returns with the pipe read-ready
\* instead of timing out, which it does once a byte is there.
C16_NoLostWakeup ==
    /\ [](pc = "wait" => InRead(fdset, PipeRd))
    /\ [][(ipc = "write" /\ ipc' = "ret") => pipe' = pipe + 1]_vars
    /\ [][pipe' < pipe => (pc = "drain" /\ r > 0 /\ InRead(fdset, PipeRd))]_vars
    /\ [][(pc = "wait" /\ pipe > 0 /\ pc' # "wait")
             => (r' > 0 /\ InRead(fdset', PipeRd))]_vars
    /\ (pc = "wait" /\ pipe > 0) ~> (died \/ pc = "drain")

\* Interrupt wrote its byte while the callbacks of a call in which the
\* pipe was not ready were running: the byte waits for the next select()
C16_Witness ==
    /\ pc = "ret" /\ result = "done"
    /\ ~InRead(fdset, PipeRd)
    /\ pipe > 0 /\ ipc = "ret"

\* Interrupt wrote its byte after SelfPipeCallback of this call had read
\* the pipe empty
C16_AfterDrain == pc = "ret" /\ DrainRan /\ pipe > 0 /\ ipc = "ret"

\* C17: descriptors 0, 1 and 2 are never scanned or dispatched: also
\* when one is registered with callbacks and select() reports it ready,
\* DispatchOne invokes none of its callbacks and changes neither its
\* entry nor its interest bits.
C17_StdNeverDispatched ==
    /\ pc \in {"scan", "drain"} => pos.fd \notin StdFds
    /\ \A i \in 1 .. Len(log) : log[i].ev # "reg" => log[i].fd \notin StdFds
    /\ pc \in {"scan", "drain", "ret"} =>
          \A fd \in StdFds :
              ~RegisteredOn(log, fd) =>
                  /\ watch_[fd] = pre.watch[fd]
                  /\ \A k \in Kinds : (fd \in select_[k]) <=> (fd \in pre.sel[k])

\* a standard descriptor with a read callback was reported read-ready in a
\* call that has run a callback of a higher descriptor and has returned
C17_Witness ==
    /\ pc = "ret" /\ result = "done"
    /\ \E fd \in StdFds, fd2 \in HighFds :
          /\ pre.watch[fd].active /\ pre.watch[fd].read_cb # <<>>
          /\ InRead(fdset, fd)
          /\ watch_[fd].read_cb = pre.watch[fd].read_cb
          /\ CallsOf(log, fd2, "r") # <<>>

\* C18: every use of a watch entry in DispatchOne goes through a pointer
\* taken by index after the last callback returned: no pointer taken before a
\* callback, which may have grown the table, is used after it, in the
\* read chain, the write chain, the deactivation tests and the exception
\* step.
C18_NoStaleReference ==
    /\ ~dangling
    /\ pc \in {"scan", "drain"} => Valid(w, pos.fd, watch_size)

\* a read callback of one descriptor registered a higher descriptor that
\* grew the table and returned false; the chain has popped it and called
\* the next callback of the queue
C18_Witness ==
    /\ pc = "ret" /\ result = "done"
    /\ watch_size > pre.size
    /\ \E i \in 2 .. (Len(log) - 1) :
          /\ log[i].ev = "reg" /\ log[i].fd >= pre.size
          /\ log[i - 1].ev = "call" /\ log[i - 1].ret = FALSE
          /\ log[i + 1].ev = "call" /\ log[i + 1].fd = log[i - 1].fd
          /\ log[i + 1].kind = log[i - 1].kind

\* C19: readiness is tested against the copy of the interest set taken
\* before select(): every callback a call invokes, and every default
\* policy it runs, is for a descriptor and kind whose bit was set in that
\* copy; so a callback that a running callback registers on another
\* descriptor whose bit of that kind was not set in the copy is not
\* invoked in the same call, also when that descriptor is scanned later.
C19_SnapshotDecides ==
    /\ \A i \in 1 .. Len(log) :
          log[i].ev # "reg" => log[i].fd \in pre.sel[log[i].kind]
    /\ \A i \in 1 .. Len(log) :
          (log[i].ev = "reg" /\ log[i].fd \notin pre.sel[log[i].kind])
          => CallsOf(log, log[i].fd, log[i].kind) = <<>>
    /\ pc \in {"scan", "drain"} => pos.fd \in pre.sel[pos.ph] /\ pos.fd \in fdset[pos.ph]

\* a callback registered a read or write callback on a higher descriptor
\* that had no bit of that kind; the call has scanned that descriptor and
\* returned, the new callback is still waiting and its bit is now set
C19_Witness ==
    /\ pc = "ret" /\ result = "done"
    /\ \E i \in 2 .. Len(log) :
          /\ log[i].ev = "reg"
          /\ log[i].fd > log[i - 1].fd
          /\ log[i].fd \notin pre.sel[log[i].kind]
          /\ pre.watch[log[i].fd].active
          /\ CallsOf(log, log[i].fd, log[i].kind) = <<>>
          /\ Len(watch_[log[i].fd][Queue(log[i].kind)]) = 1
          /\ log[i].fd \in select_[log[i].kind]

\* C20: once DispatchOne has marked a descriptor inactive during a call
\* it invokes no further callback and no default exception policy for it
\* in the same call: every write step and every exception step of a
\* descriptor happens while its entry is active.
C20_NoDispatchOnDeactivated ==
    (pc = "scan" /\ pos.ph \in {"w", "e"}) => watch_[pos.fd].active

====
